---- MODULE Spec2Model ----
(***************************************************************************)
(* A model of the rlox scanner (src/src/scanner.rs), its tokens            *)
(* (src/src/token.rs), the diagnostic sink Lox::error and the drivers      *)
(* run_file and run_prompt (src/src/lox.rs), and main (src/src/main.rs).   *)
(*                                                                         *)
(* The input is a sequence of bytes (the UTF-8 encoding of a Rust String). *)
(* Rust positions are 0-based: input.as_bytes()[i] is input[i + 1] here    *)
(* and the slice &input[a..b] is SubSeq(input, a + 1, b).                  *)
(* One step of the model is one iteration of the loop of scan_tokens (a    *)
(* whole scan_token dispatch with the helper loops it runs), or the final  *)
(* push of the EOF token.  A Rust panic (index out of bounds, a str slice  *)
(* off a character boundary, unwrap of a failed parse) sets panicked.      *)
(***************************************************************************)
EXTENDS Integers, Sequences, FiniteSets, TLC

VARIABLES input, tokens, start, current, line, errors, had_error, panicked, pc,
          args, mode, file_name, exit_code

vars ==
    <<input, tokens, start, current, line, errors, had_error, panicked, pc,
      args, mode, file_name, exit_code>>

\* The process around the scanner: the argument vector, the branch main
\* took, the path given to run_file and the exit status (-1 while running).
process == <<args, mode, file_name, exit_code>>

(***************************************************************************)
(* Bytes.  Ord gives the ASCII value of the byte literals of the scanner    *)
(* and of the other characters the inputs are made of.                     *)
(***************************************************************************)
Ord ==
    [NUL |-> 0, TAB |-> 9, LF |-> 10, CR |-> 13, SP |-> 32, BANG |-> 33,
     QUOTE |-> 34, LPAREN |-> 40, RPAREN |-> 41, STAR |-> 42, PLUS |-> 43,
     COMMA |-> 44, MINUS |-> 45, DOT |-> 46, SLASH |-> 47, ZERO |-> 48,
     ONE |-> 49, NINE |-> 57, SEMICOLON |-> 59, LT |-> 60, EQ |-> 61, GT |-> 62,
     AT |-> 64, UPPER_A |-> 65, UPPER_Z |-> 90, BACKSLASH |-> 92,
     UNDERSCORE |-> 95, LOWER_A |-> 97, LOWER_Z |-> 122, LBRACE |-> 123,
     RBRACE |-> 125]

\* The bytes of an ASCII word given as a sequence of one-letter strings.
Letter ==
    [a |-> 97, b |-> 98, c |-> 99, d |-> 100, e |-> 101, f |-> 102,
     g |-> 103, h |-> 104, i |-> 105, j |-> 106, k |-> 107, l |-> 108,
     m |-> 109, n |-> 110, o |-> 111, p |-> 112, q |-> 113, r |-> 114,
     s |-> 115, t |-> 116, u |-> 117, v |-> 118, w |-> 119, x |-> 120,
     y |-> 121, z |-> 122]

Word(w) == [i \in 1..Len(w) |-> Letter[w[i]]]

(***************************************************************************)
(* Tokens (token.rs).  The literal is a Box<dyn Any>: a String or an f64.  *)
(***************************************************************************)
StringLiteral(text) == [kind |-> "String", val |-> text]

F64Literal(n) == [kind |-> "f64", val |-> n]

TokenNewLiteral(t, lexeme, literal, l) ==
    [token_type |-> t, lexeme |-> lexeme, literal |-> literal, line |-> l]

TokenNew(t, lexeme, l) ==
    [token_type |-> t, lexeme |-> lexeme, literal |-> StringLiteral(<<>>),
     line |-> l]

(***************************************************************************)
(* The scanner's mutable state as a record, so that the helper methods are *)
(* operators from a scanner to a scanner.                                  *)
(***************************************************************************)
Self ==
    [tokens |-> tokens, start |-> start, current |-> current, line |-> line,
     errors |-> errors, had_error |-> had_error, panicked |-> panicked]

Panic(s) == [s EXCEPT !.panicked = TRUE]

\* A slip: the report also clears the token vector.
LoxErrorClearsTokens(s, l, m) ==
    [s EXCEPT !.errors = Append(@, [line |-> l, message |-> m]),
              !.had_error = TRUE,
              !.tokens = <<>>]

\* Lox::error: prints the message and sets the process-wide flag.
LoxError(s, l, m) ==
    [s EXCEPT !.errors = Append(@, [line |-> l, message |-> m]),
              !.had_error = TRUE]

IsAtEnd(s) == s.current >= Len(input)

Peek(s) == IF IsAtEnd(s) THEN Ord.NUL ELSE input[s.current + 1]

PeekNext(s) ==
    IF s.current + 1 >= Len(input) THEN Ord.NUL ELSE input[s.current + 2]

\* A slip: `+= 2` typed for `+= 1`.
AdvanceTwice(s) ==
    IF s.panicked THEN s
    ELSE IF s.current >= Len(input) THEN Panic(s)
    ELSE [s EXCEPT !.current = @ + 2]

\* advance: indexing as_bytes()[current] past the end panics.
Advance(s) ==
    IF s.panicked THEN s
    ELSE IF s.current >= Len(input) THEN Panic(s)
    ELSE [s EXCEPT !.current = @ + 1]

\* str::is_char_boundary: 0, len, or a byte that is no UTF-8 continuation
\* byte (0x80..0xBF).
IsCharBoundary(i) ==
    \/ i = 0
    \/ i = Len(input)
    \/ i > 0 /\ i < Len(input) /\ ~(input[i + 1] \in 128..191)

\* &input[a..b] panics unless a <= b <= len and both are char boundaries.
SliceOk(a, b) ==
    /\ 0 <= a /\ a <= b /\ b <= Len(input)
    /\ IsCharBoundary(a) /\ IsCharBoundary(b)

\* A slip: the slice taken one byte late.
SliceSkipsFirst(a, b) == SubSeq(input, a + 2, b)

Slice(a, b) == SubSeq(input, a + 1, b)

AddToken(s, t, literal) ==
    IF s.panicked THEN s
    ELSE IF ~SliceOk(s.start, s.current) THEN Panic(s)
    ELSE [s EXCEPT !.tokens =
              Append(@, TokenNewLiteral(t, Slice(s.start, s.current),
                                        literal, s.line))]

\* A slip: the token's text stored as its literal too.
AddEmptyTokenTextLiteral(s, t) ==
    AddToken(s, t, StringLiteral(Slice(s.start, s.current)))

\* A slip: the lexeme sliced from the beginning of the input.
AddEmptyTokenFromZero(s, t) ==
    IF s.panicked THEN s
    ELSE IF ~SliceOk(0, s.current) THEN Panic(s)
    ELSE [s EXCEPT !.tokens =
              Append(@, TokenNew(t, Slice(0, s.current), s.line))]

AddEmptyToken(s, t) ==
    IF s.panicked THEN s
    ELSE IF ~SliceOk(s.start, s.current) THEN Panic(s)
    ELSE [s EXCEPT !.tokens =
              Append(@, TokenNew(t, Slice(s.start, s.current), s.line))]

\* A slip: match_two_char without its `current += 1`.
MatchTwoCharNoAdvance(s, c) == s

\* match_two_char: its result, and the scanner it leaves.
MatchTwoCharHit(s, c) == ~IsAtEnd(s) /\ input[s.current + 1] = c

MatchTwoChar(s, c) ==
    IF MatchTwoCharHit(s, c) THEN [s EXCEPT !.current = @ + 1] ELSE s

IsDigit(c) == Ord.ZERO <= c /\ c <= Ord.NINE

IsAlpha(c) ==
    \/ c >= Ord.LOWER_A /\ c <= Ord.LOWER_Z
    \/ c >= Ord.UPPER_A /\ c <= Ord.UPPER_Z
    \/ c = Ord.UNDERSCORE

IsAlphanumeric(c) == IsAlpha(c) \/ IsDigit(c)

Keywords ==
    { [word |-> Word(<<"a", "n", "d">>), type |-> "AND"],
      [word |-> Word(<<"c", "l", "a", "s", "s">>), type |-> "CLASS"],
      [word |-> Word(<<"e", "l", "s", "e">>), type |-> "ELSE"],
      [word |-> Word(<<"f", "a", "l", "s", "e">>), type |-> "FALSE"],
      [word |-> Word(<<"f", "o", "r">>), type |-> "FOR"],
      [word |-> Word(<<"f", "u", "n">>), type |-> "FUN"],
      [word |-> Word(<<"i", "f">>), type |-> "IF"],
      [word |-> Word(<<"n", "i", "l">>), type |-> "NIL"],
      [word |-> Word(<<"o", "r">>), type |-> "OR"],
      [word |-> Word(<<"p", "r", "i", "n", "t">>), type |-> "PRINT"],
      [word |-> Word(<<"r", "e", "t", "u", "r", "n">>), type |-> "RETURN"],
      [word |-> Word(<<"s", "u", "p", "e", "r">>), type |-> "SUPER"],
      [word |-> Word(<<"t", "h", "i", "s">>), type |-> "THIS"],
      [word |-> Word(<<"t", "r", "u", "e">>), type |-> "TRUE"],
      [word |-> Word(<<"v", "a", "r">>), type |-> "VAR"],
      [word |-> Word(<<"w", "h", "i", "l", "e">>), type |-> "WHILE"] }

\* A slip: a lookup that accepts a text of which a keyword is a prefix.
KeywordsGetPrefix(t) ==
    LET hits == {k \in Keywords : /\ Len(k.word) <= Len(t)
                                  /\ SubSeq(t, 1, Len(k.word)) = k.word}
    IN  IF hits # {}
        THEN [some |-> TRUE, type |-> (CHOOSE k \in hits : TRUE).type]
        ELSE [some |-> FALSE, type |-> "IDENT"]

\* keywords.get(t): Some(type) or None.
KeywordsGet(t) ==
    IF \E k \in Keywords : k.word = t
    THEN [some |-> TRUE, type |-> (CHOOSE k \in Keywords : k.word = t).type]
    ELSE [some |-> FALSE, type |-> "IDENT"]

(***************************************************************************)
(* string()                                                                *)
(*                                                                         *)
(* Each while loop is a recursive operator: Body is one test of the loop   *)
(* condition and one pass through the loop body, on the value s of the     *)
(* scanner s0 the iteration starts from.                                   *)
(***************************************************************************)
RECURSIVE StringLoop(_)
StringLoop(s0) ==
    LET Body(s) ==
            IF s.panicked THEN s
            ELSE IF Peek(s) # Ord.QUOTE /\ ~IsAtEnd(s)
            THEN StringLoop(Advance(IF Peek(s) = Ord.LF
                                    THEN [s EXCEPT !.line = @ + 1]
                                    ELSE s))
            ELSE s
    IN  CHOOSE r \in {Body(s) : s \in {s0}} : TRUE

\* A slip: the literal taken with its quotes.
StringTextQuoted(s) == Slice(s.start, s.current)

\* The text between the quotes: &input[start+1..current-1].
StringText(s) == Slice(s.start + 1, s.current - 1)

\* A slip: the report of the unterminated string without its `return`.
StringNoReturn(s) ==
    LET s1 == StringLoop(s)
        s2 == Advance(IF IsAtEnd(s1)
                      THEN LoxError(s1, s1.line, "Unterminated string.")
                      ELSE s1)
    IN  IF s2.panicked THEN s2
        ELSE IF ~SliceOk(s2.start + 1, s2.current - 1) THEN Panic(s2)
        ELSE AddToken(s2, "STRING", StringLiteral(StringText(s2)))

\* A slip: string() without the test for the end of the input.
StringNoEndTest(s) ==
    LET s1 == StringLoop(s)
        s2 == Advance(s1)
    IN  IF s2.panicked THEN s2
        ELSE IF ~SliceOk(s2.start + 1, s2.current - 1) THEN Panic(s2)
        ELSE AddToken(s2, "STRING", StringLiteral(StringText(s2)))

String(s) ==
    LET s1 == StringLoop(s)
        s2 == Advance(s1)
    IN  IF s1.panicked THEN s1
        ELSE IF IsAtEnd(s1) THEN LoxError(s1, s1.line, "Unterminated string.")
        ELSE IF s2.panicked THEN s2
        ELSE IF ~SliceOk(s2.start + 1, s2.current - 1) THEN Panic(s2)
        ELSE AddToken(s2, "STRING", StringLiteral(StringText(s2)))

(***************************************************************************)
(* number()                                                                *)
(***************************************************************************)
RECURSIVE DigitLoop(_)
DigitLoop(s0) ==
    LET Body(s) ==
            IF s.panicked THEN s
            ELSE IF IsDigit(Peek(s)) THEN DigitLoop(Advance(s))
            ELSE s
    IN  CHOOSE r \in {Body(s) : s \in {s0}} : TRUE

\* A slip: the '.' taken without a look at the byte after it.
HasFractionNoLookahead(s) == Peek(s) = Ord.DOT

\* The test that lets number() take a '.' as a decimal point.
HasFraction(s) == Peek(s) = Ord.DOT /\ IsDigit(PeekNext(s))

\* <f64 as FromStr>: the decimal forms digits, digits '.', '.' digits and
\* digits '.' digits parse; any other text here is an Err (a sign, an
\* exponent, "inf" and "nan" are not modelled: no such text reaches it).
ParseOk(text) ==
    /\ \A i \in 1..Len(text) : IsDigit(text[i]) \/ text[i] = Ord.DOT
    /\ Cardinality({i \in 1..Len(text) : text[i] = Ord.DOT}) <= 1
    /\ \E i \in 1..Len(text) : IsDigit(text[i])

RECURSIVE DigitsValue(_)
DigitsValue(ds) ==
    IF Len(ds) = 0 THEN 0
    ELSE 10 * DigitsValue(SubSeq(ds, 1, Len(ds) - 1))
         + (ds[Len(ds)] - Ord.ZERO)

RECURSIVE Normalize(_, _)
Normalize(mant, scale) ==
    IF scale > 0 /\ mant % 10 = 0 THEN Normalize(mant \div 10, scale - 1)
    ELSE [mant |-> mant, scale |-> scale]

\* The value parsed: mant / 10^scale in lowest terms of ten, so that 42.0
\* and 42 are the same value.
ParseValue(text) ==
    LET dots == {i \in 1..Len(text) : text[i] = Ord.DOT}
        n == Len(text)
        dot == IF dots = {} THEN n + 1 ELSE CHOOSE i \in dots : TRUE
        digits == SubSeq(text, 1, dot - 1) \o SubSeq(text, dot + 1, n)
    IN  Normalize(DigitsValue(digits), IF dots = {} THEN 0 ELSE n - dot)

Number(s) ==
    LET s1 == DigitLoop(s)
        s2 == IF HasFraction(s1) THEN DigitLoop(Advance(s1)) ELSE s1
    IN  IF s2.panicked THEN s2
        ELSE IF ~SliceOk(s2.start, s2.current) THEN Panic(s2)
        ELSE IF ~ParseOk(Slice(s2.start, s2.current)) THEN Panic(s2)
        ELSE AddToken(s2, "NUM",
                      F64Literal(ParseValue(Slice(s2.start, s2.current))))

(***************************************************************************)
(* ident()                                                                 *)
(***************************************************************************)
RECURSIVE IdentLoop(_)
IdentLoop(s0) ==
    LET Body(s) ==
            IF s.panicked THEN s
            ELSE IF IsAlphanumeric(Peek(s)) THEN IdentLoop(Advance(s))
            ELSE s
    IN  CHOOSE r \in {Body(s) : s \in {s0}} : TRUE

Ident(s) ==
    LET s1 == IdentLoop(s)
    IN  IF s1.panicked THEN s1
        ELSE IF ~SliceOk(s1.start, s1.current) THEN Panic(s1)
        ELSE AddEmptyToken(s1, KeywordsGet(Slice(s1.start, s1.current)).type)

(***************************************************************************)
(* scan_token()                                                            *)
(***************************************************************************)
\* The loop of the `//` branch, as written: it runs while the next byte IS
\* a newline, and never touches line.
RECURSIVE CommentLoop(_)
CommentLoop(s0) ==
    LET Body(s) ==
            IF s.panicked THEN s
            ELSE IF Peek(s) = Ord.LF /\ ~IsAtEnd(s)
            THEN CommentLoop(Advance(s))
            ELSE s
    IN  CHOOSE r \in {Body(s) : s \in {s0}} : TRUE

\* A `!`, `=`, `<` or `>`: the long form if a `=` follows, else the short.
Operator(s, long, short) ==
    IF MatchTwoCharHit(s, Ord.EQ)
    THEN AddEmptyToken(MatchTwoChar(s, Ord.EQ), long)
    ELSE AddEmptyToken(MatchTwoChar(s, Ord.EQ), short)

Slash(s) ==
    IF MatchTwoCharHit(s, Ord.SLASH)
    THEN CommentLoop(MatchTwoChar(s, Ord.SLASH))
    ELSE AddEmptyToken(MatchTwoChar(s, Ord.SLASH), "SLASH")

\* A slip: `-=` typed for `+=`.
NewlineDecrements(s) == [s EXCEPT !.line = @ - 1]

Newline(s) == [s EXCEPT !.line = @ + 1]

\* A slip: the last branch without its report.
UnexpectedNoReport(s) == s

\* The last branch of the match: a byte that starts no lexeme.
Unexpected(s) == LoxError(s, s.line, "Unexpected char")

ScanToken(s0) ==
    LET s == Advance(s0)
        c == input[s0.current + 1]
    IN  IF s.panicked THEN s
        ELSE CASE c = Ord.LPAREN -> AddEmptyToken(s, "LPAREN")
               [] c = Ord.RPAREN -> AddEmptyToken(s, "RPAREN")
               [] c = Ord.LBRACE -> AddEmptyToken(s, "LBRACE")
               [] c = Ord.RBRACE -> AddEmptyToken(s, "RBRACE")
               [] c = Ord.COMMA -> AddEmptyToken(s, "COMMA")
               [] c = Ord.DOT -> AddEmptyToken(s, "DOT")
               [] c = Ord.MINUS -> AddEmptyToken(s, "MINUS")
               [] c = Ord.PLUS -> AddEmptyToken(s, "PLUS")
               [] c = Ord.SEMICOLON -> AddEmptyToken(s, "SEMICOLON")
               [] c = Ord.STAR -> AddEmptyToken(s, "STAR")
               [] c = Ord.BANG -> Operator(s, "BANGEQ", "BANG")
               [] c = Ord.EQ -> Operator(s, "EQEQ", "EQ")
               [] c = Ord.LT -> Operator(s, "LTEQ", "LT")
               [] c = Ord.GT -> Operator(s, "GTEQ", "GT")
               [] c = Ord.SLASH -> Slash(s)
               [] c = Ord.QUOTE -> String(s)
               [] c = Ord.LF -> Newline(s)
               [] c \in {Ord.SP, Ord.TAB, Ord.CR} -> s
               [] OTHER -> IF IsDigit(c) THEN Number(s)
                           ELSE IF IsAlpha(c) THEN Ident(s)
                           ELSE Unexpected(s)

(***************************************************************************)
(* scan_tokens()                                                           *)
(***************************************************************************)
\* A slip: the EOF token built with the line the scanner started on.
EofTokenFirstLine(l) == TokenNew("EOF", <<>>, 1)

EofToken(l) == TokenNew("EOF", <<>>, l)

Store(s) ==
    /\ tokens' = s.tokens
    /\ start' = s.start
    /\ current' = s.current
    /\ line' = s.line
    /\ errors' = s.errors
    /\ had_error' = s.had_error
    /\ panicked' = s.panicked

\* One iteration of the while loop: start = current; scan_token().
ScanTokensLoop ==
    /\ pc = "scanning"
    /\ ~IsAtEnd(Self)
    /\ \E s \in {ScanToken([Self EXCEPT !.start = current])} :
           /\ Store(s)
           /\ pc' = IF s.panicked THEN "aborted" ELSE "scanning"
    /\ UNCHANGED input
    /\ UNCHANGED process

\* The loop is left: push the EOF token and return.
ScanTokensReturn ==
    /\ pc = "scanning"
    /\ IsAtEnd(Self)
    /\ tokens' = Append(tokens, EofToken(line))
    /\ pc' = "returned"
    /\ UNCHANGED <<input, start, current, line, errors, had_error, panicked>>
    /\ UNCHANGED process

(***************************************************************************)
(* Inputs.  A character is the sequence of its UTF-8 bytes; an input is    *)
(* the concatenation of at most n characters of an alphabet.               *)
(***************************************************************************)
RECURSIVE Inputs(_, _)
Inputs(alphabet, n) ==
    IF n = 0 THEN {<<>>}
    ELSE LET shorter == Inputs(alphabet, n - 1)
         IN  shorter \cup {p \o ch : p \in shorter, ch \in alphabet}

\* U+00E9 (two bytes) stands for the non-ASCII characters.
EAcute == <<195, 169>>

MaxLen == 4

MixedAlphabet ==
    { <<Ord.BANG>>, <<Ord.SLASH>>, <<Ord.LF>>, <<Ord.QUOTE>>, <<Ord.ZERO>>,
      <<Ord.DOT>>, <<Letter.a>>, <<Ord.NUL>>, <<Ord.BACKSLASH>>, EAcute }

\* Before Lox::run is called: no scanner yet (its fields are shown as
\* Scanner::new leaves them), and the process-wide HAD_ERROR is false.
Init ==
    /\ input = <<>>
    /\ tokens = <<>>
    /\ start = 0
    /\ current = 0
    /\ line = 1
    /\ errors = <<>>
    /\ had_error = FALSE
    /\ panicked = FALSE
    /\ pc = "idle"
    /\ args = <<>>
    /\ mode = "none"
    /\ file_name = ""
    /\ exit_code = -1

\* Lox::run up to the call of scan_tokens: Scanner::new(input), for an
\* input text of the set texts.
ScannerNew(texts) ==
    /\ pc = "idle"
    /\ \E text \in texts : input' = text
    /\ tokens' = <<>>
    /\ start' = 0
    /\ current' = 0
    /\ line' = 1
    /\ pc' = "scanning"
    /\ UNCHANGED <<errors, had_error, panicked>>
    /\ UNCHANGED process

Scan == ScanTokensLoop \/ ScanTokensReturn

MixedInputs == Inputs(MixedAlphabet, MaxLen)

Next == ScannerNew(MixedInputs) \/ Scan

Spec == Init /\ [][Next]_vars

\* Lox::run and scan_tokens are plain sequential code: a step that can be
\* taken is taken.
LiveMaxLen == 3

LiveInputs == Inputs(MixedAlphabet, LiveMaxLen)

LiveNext == ScannerNew(LiveInputs) \/ Scan

LiveSpec == Init /\ [][LiveNext]_vars /\ WF_vars(LiveNext)

\* Identifiers and keywords: and, or, And, and1, a_1, ...
IdentAlphabet ==
    { <<Letter.a>>, <<Letter.n>>, <<Letter.d>>, <<Letter.o>>, <<Letter.r>>,
      <<Ord.UPPER_A>>, <<Ord.ONE>>, <<Ord.UNDERSCORE>>, <<Ord.SP>> }

IdentInputs == Inputs(IdentAlphabet, MaxLen)

IdentNext == ScannerNew(IdentInputs) \/ Scan

IdentSpec == Init /\ [][IdentNext]_vars

\* Numbers: 1., 1.0.1, .1, 10.a, ...
NumMaxLen == 5

NumAlphabet ==
    { <<Ord.ZERO>>, <<Ord.ONE>>, <<Ord.DOT>>, <<Letter.a>>, <<Ord.SP>> }

NumInputs == Inputs(NumAlphabet, NumMaxLen)

NumNext == ScannerNew(NumInputs) \/ Scan

NumSpec == Init /\ [][NumNext]_vars

\* Operators: !=, ==, <=, >=, !a, = =, ...
OpAlphabet ==
    { <<Ord.BANG>>, <<Ord.EQ>>, <<Ord.LT>>, <<Ord.GT>>, <<Letter.a>>,
      <<Ord.SP>>, <<Ord.QUOTE>> }

OpInputs == Inputs(OpAlphabet, MaxLen)

OpNext == ScannerNew(OpInputs) \/ Scan

OpSpec == Init /\ [][OpNext]_vars

\* Errors: unexpected characters and unterminated strings.
ErrAlphabet ==
    { <<Ord.AT>>, <<Ord.NUL>>, <<Ord.SP>>, <<Letter.a>>, <<Ord.QUOTE>>,
      <<Ord.LF>>, <<Ord.SLASH>>, EAcute }

ErrInputs == Inputs(ErrAlphabet, MaxLen)

ErrNext == ScannerNew(ErrInputs) \/ Scan

ErrSpec == Init /\ [][ErrNext]_vars

\* Punctuation and white space.
PunctMaxLen == 3

PunctAlphabet ==
    { <<Ord.LPAREN>>, <<Ord.RPAREN>>, <<Ord.LBRACE>>, <<Ord.RBRACE>>,
      <<Ord.COMMA>>, <<Ord.DOT>>, <<Ord.MINUS>>, <<Ord.PLUS>>,
      <<Ord.SEMICOLON>>, <<Ord.SLASH>>, <<Ord.STAR>>,
      <<Ord.SP>>, <<Ord.TAB>>, <<Ord.CR>>, <<Ord.LF>> }

PunctInputs == Inputs(PunctAlphabet, PunctMaxLen)

PunctNext == ScannerNew(PunctInputs) \/ Scan

PunctSpec == Init /\ [][PunctNext]_vars

(***************************************************************************)
(* The process: main, run_file, run_prompt and run.                        *)
(***************************************************************************)
MaxArgs == 2

LoxMaxLen == 2

Scripts == {"a.lox", "b.lox"}

RECURSIVE ScriptVectors(_)
ScriptVectors(n) ==
    IF n = 0 THEN {<<>>}
    ELSE LET shorter == ScriptVectors(n - 1)
         IN  shorter \cup {v \o <<f>> : v \in shorter, f \in Scripts}

\* env::args(): the program name and then the arguments; the vector can
\* also be empty (a process started with an empty argv).
ArgVectors == {<<>>} \cup {<<"rlox">> \o v : v \in ScriptVectors(MaxArgs)}

LoxInit ==
    /\ input = <<>>
    /\ tokens = <<>>
    /\ start = 0
    /\ current = 0
    /\ line = 1
    /\ errors = <<>>
    /\ had_error = FALSE
    /\ panicked = FALSE
    /\ pc = "main"
    /\ args \in ArgVectors
    /\ mode = "none"
    /\ file_name = ""
    /\ exit_code = -1

\* main: the three branches on args.len().
Main ==
    /\ pc = "main"
    /\ IF Len(args) > 1
       THEN /\ mode' = "usage"
            /\ pc' = "exited"
            /\ exit_code' = 0
            /\ file_name' = file_name
       ELSE IF Len(args) = 1
       THEN /\ mode' = "file"
            /\ file_name' = args[1]
            /\ pc' = "run_file"
            /\ exit_code' = exit_code
       ELSE /\ mode' = "prompt"
            /\ pc' = "prompt"
            /\ file_name' = file_name
            /\ exit_code' = exit_code
    /\ UNCHANGED <<input, tokens, start, current, line, errors, had_error,
                   panicked, args>>

\* run_file up to the call of run: File::open(..).unwrap() panics when the
\* file cannot be opened (exit status 101), else the text is read.
RunFile ==
    /\ pc = "run_file"
    /\ \/ /\ panicked' = TRUE
          /\ pc' = "aborted"
          /\ exit_code' = 101
       \/ /\ pc' = "idle"
          /\ UNCHANGED <<panicked, exit_code>>
    /\ UNCHANGED <<input, tokens, start, current, line, errors, had_error,
                   args, mode, file_name>>

\* A slip: the test of the flag dropped.
PromptNeverExits == FALSE

\* The test at the top of the loop of run_prompt.
PromptExits == had_error

\* The top of the loop of run_prompt: exit(65) when the flag is set, else
\* HAD_ERROR = false and the prompt is printed.
RunPrompt ==
    /\ pc = "prompt"
    /\ IF PromptExits
       THEN /\ pc' = "exited"
            /\ exit_code' = 65
            /\ had_error' = had_error
       ELSE /\ had_error' = FALSE
            /\ pc' = "idle"
            /\ exit_code' = exit_code
    /\ UNCHANGED <<input, tokens, start, current, line, errors, panicked,
                   args, mode, file_name>>

LineAlphabet == { <<Letter.a>>, <<Ord.AT>>, <<Ord.QUOTE>> }

\* What read_line gives: a line with its newline, or without it at the
\* end of the standard input (the empty text when nothing is left).
LineTexts ==
    LET ls == Inputs(LineAlphabet, LoxMaxLen)
    IN  ls \cup {l \o <<Ord.LF>> : l \in ls}

\* What read_to_string gives: the text of the file (the empty text when
\* the read fails).
FileTexts == Inputs(LineAlphabet \cup {<<Ord.LF>>}, LoxMaxLen)

LoxTexts == IF mode = "file" THEN FileTexts ELSE LineTexts

\* run after scan_tokens: the tokens are printed and the scanner dropped;
\* run_file then returns to main, which returns, and run_prompt loops.
RunReturn ==
    /\ pc = "returned"
    /\ mode \in {"file", "prompt"}
    /\ input' = <<>>
    /\ tokens' = <<>>
    /\ start' = 0
    /\ current' = 0
    /\ line' = 1
    /\ IF mode = "file"
       THEN pc' = "exited" /\ exit_code' = 0
       ELSE pc' = "prompt" /\ exit_code' = exit_code
    /\ UNCHANGED <<errors, had_error, panicked, args, mode, file_name>>

LoxNext ==
    \/ Main
    \/ RunFile
    \/ RunPrompt
    \/ ScannerNew(LoxTexts)
    \/ Scan
    \/ RunReturn

LoxSpec == LoxInit /\ [][LoxNext]_vars /\ WF_vars(LoxNext)

(***************************************************************************)
(* Helpers of the properties, written from the input alone.                *)
(***************************************************************************)
\* The number of newline bytes among the first n bytes of the input.
NewlinesBefore(n) == Cardinality({i \in 1..n : input[i] = 10})

TokenTypes(ts) == [i \in 1..Len(ts) |-> ts[i].token_type]

\* C1: when scan_tokens has returned, the last token is EOF with an empty
\* lexeme and the line the scanner's counter ended on, no other token is
\* EOF, and the empty input gives exactly the EOF token of line 1.
C1_EofLast ==
    /\ pc = "returned" =>
          /\ Len(tokens) >= 1
          /\ tokens[Len(tokens)].token_type = "EOF"
          /\ tokens[Len(tokens)].lexeme = <<>>
          /\ tokens[Len(tokens)].line = line
          /\ \A i \in 1..(Len(tokens) - 1) : tokens[i].token_type # "EOF"
          /\ input = <<>> =>
                /\ Len(tokens) = 1
                /\ tokens[1].line = 1
    /\ pc # "returned" => \A i \in 1..Len(tokens) : tokens[i].token_type # "EOF"

C1_Witness ==
    /\ pc = "returned"
    /\ Len(tokens) >= 3
    /\ line >= 3

\* C2: scan_tokens is total: no step panics (advance stays inside the
\* input, every slice is at character boundaries, the parse of number()
\* succeeds) and the loop ends with the return of the token sequence.
C2_Total == [](~panicked /\ pc # "aborted") /\ <>(pc = "returned")

C2_Witness ==
    /\ pc = "returned"
    /\ \E i \in 1..Len(input) : input[i] = 195
    /\ \E i \in 1..Len(input) : input[i] = Ord.NUL
    /\ \E i \in 1..Len(errors) : errors[i].message = "Unterminated string."

\* The end of the line that holds position p: the first position from p on
\* that is the end of the input or holds a newline (0-based).
LineEnd(p) ==
    CHOOSE q \in p..Len(input) :
        /\ q = Len(input) \/ input[q + 1] = 10
        /\ \A k \in p..(q - 1) : input[k + 1] # 10

\* A dispatch on byte c is about to run.
Dispatching(c) ==
    pc = "scanning" /\ current < Len(input) /\ input[current + 1] = c

FollowedBy(c) == current + 1 < Len(input) /\ input[current + 2] = c

\* The step appends exactly the token tok and keeps the others.
Emits(tok) == tokens' = Append(tokens, tok)

\* C3: a dispatch on `//` consumes up to the next newline or the end of the
\* input, emits no token and reports no error; a `/` that no `/` follows
\* emits one SLASH token.
C3_CommentSkipped ==
    [][Dispatching(47) =>
          IF FollowedBy(47)
          THEN /\ current' = LineEnd(current + 2)
               /\ tokens' = tokens
               /\ errors' = errors
          ELSE /\ current' = current + 1
               /\ Len(tokens') = Len(tokens) + 1
               /\ tokens'[Len(tokens')].token_type = "SLASH"]_vars

\* C4: a token emitted by a dispatch carries the 1-based line of its first
\* character (for a string, the line of the opening quote).
C4_TokenLine ==
    [][(pc = "scanning" /\ pc' = "scanning"
        /\ Len(tokens') = Len(tokens) + 1) =>
          tokens'[Len(tokens')].line = 1 + NewlinesBefore(current)]_vars

\* C5: between dispatches, line is 1 plus the number of newlines consumed.
C5_LineCount == ~panicked => line = 1 + NewlinesBefore(current)

\* The closing quote of the string opened at position p (0-based): the
\* first `"` after p.
HasClosingQuote(p) == \E q \in (p + 1)..(Len(input) - 1) : input[q + 1] = 34

ClosingQuote(p) ==
    CHOOSE q \in (p + 1)..(Len(input) - 1) :
        /\ input[q + 1] = 34
        /\ \A k \in (p + 1)..(q - 1) : input[k + 1] # 34

\* C6: a dispatch on the opening quote of a closed string appends exactly
\* one STRING token: its literal is the text between the quotes, byte for
\* byte, and its lexeme the text with both quotes.
C6_StringToken ==
    [][(Dispatching(34) /\ HasClosingQuote(current)) =>
          LET close == ClosingQuote(current)
              tok == tokens'[Len(tokens')]
          IN  /\ Len(tokens') = Len(tokens) + 1
              /\ SubSeq(tokens', 1, Len(tokens)) = tokens
              /\ tok.token_type = "STRING"
              /\ tok.lexeme = SubSeq(input, current + 1, close + 1)
              /\ tok.literal.kind = "String"
              /\ tok.literal.val = SubSeq(input, current + 2, close)
              /\ current' = close + 1
              /\ errors' = errors]_vars

C6_Witness ==
    \E i \in 1..Len(tokens) :
        /\ tokens[i].token_type = "STRING"
        /\ tokens[i].literal.val = <<92, 10>>
        /\ tokens[i].lexeme = <<34, 92, 10, 34>>

(***************************************************************************)
(* Identifiers and keywords.                                               *)
(***************************************************************************)
IsWordByte(c) == c \in 65..90 \/ c \in 97..122 \/ c \in 48..57 \/ c = 95

IsWordStart(c) == c \in 65..90 \/ c \in 97..122 \/ c = 95

\* The end of the maximal run of letters, digits and underscores from
\* position p (0-based, exclusive).
WordEnd(p) ==
    CHOOSE q \in p..Len(input) :
        /\ q = Len(input) \/ ~IsWordByte(input[q + 1])
        /\ \A k \in p..(q - 1) : IsWordByte(input[k + 1])

\* A dispatch on the first byte of an identifier or keyword is about to run.
DispatchingWord ==
    pc = "scanning" /\ current < Len(input) /\ IsWordStart(input[current + 1])

\* The 16 reserved words and their token types.
Reserved ==
    { <<<<97, 110, 100>>, "AND">>, <<<<99, 108, 97, 115, 115>>, "CLASS">>,
      <<<<101, 108, 115, 101>>, "ELSE">>,
      <<<<102, 97, 108, 115, 101>>, "FALSE">>,
      <<<<102, 111, 114>>, "FOR">>, <<<<102, 117, 110>>, "FUN">>,
      <<<<105, 102>>, "IF">>, <<<<110, 105, 108>>, "NIL">>,
      <<<<111, 114>>, "OR">>, <<<<112, 114, 105, 110, 116>>, "PRINT">>,
      <<<<114, 101, 116, 117, 114, 110>>, "RETURN">>,
      <<<<115, 117, 112, 101, 114>>, "SUPER">>,
      <<<<116, 104, 105, 115>>, "THIS">>, <<<<116, 114, 117, 101>>, "TRUE">>,
      <<<<118, 97, 114>>, "VAR">>,
      <<<<119, 104, 105, 108, 101>>, "WHILE">> }

IsReserved(w) == \E r \in Reserved : r[1] = w

C8_KeywordExact ==
    [][DispatchingWord =>
          LET run == SubSeq(input, current + 1, WordEnd(current))
              tok == tokens'[Len(tokens')]
          IN  /\ tokens' = Append(tokens, tok)
              /\ tok.lexeme = run
              /\ current' = WordEnd(current)
              /\ \A r \in Reserved : r[1] = run => tok.token_type = r[2]
              /\ ~IsReserved(run) => tok.token_type = "IDENT"
              /\ tok.token_type # "IDENT" => <<run, tok.token_type>> \in Reserved
         ]_vars

C8_Witness ==
    /\ pc = "returned"
    /\ \E i \in 1..Len(tokens) :
          tokens[i].token_type = "IDENT" /\ tokens[i].lexeme = <<97, 110, 100, 49>>

(***************************************************************************)
(* Numbers.                                                                *)
(***************************************************************************)
IsDigitByte(c) == c \in 48..57

\* The end of the maximal run of digits from position p (0-based, exclusive).
DigitsEnd(p) ==
    CHOOSE q \in p..Len(input) :
        /\ q = Len(input) \/ ~IsDigitByte(input[q + 1])
        /\ \A k \in p..(q - 1) : IsDigitByte(input[k + 1])

\* The end of the number that starts at p: the digits, and a '.' with the
\* digits after it when a digit follows the '.'.
NumberEnd(p) ==
    LET d == DigitsEnd(p)
    IN  IF d + 1 < Len(input) /\ input[d + 1] = 46 /\ IsDigitByte(input[d + 2])
        THEN DigitsEnd(d + 1)
        ELSE d

\* C9: the lexeme of a NUM token is the maximal run of digits, with a '.'
\* and the digits after it only when a digit follows the '.'; a '.' that
\* the number leaves is a DOT token of its own.
C9_NumberLexeme ==
    /\ [][(pc = "scanning" /\ current < Len(input)
            /\ IsDigitByte(input[current + 1])) =>
             LET tok == tokens'[Len(tokens')]
             IN  /\ tokens' = Append(tokens, tok)
                 /\ tok.token_type = "NUM"
                 /\ tok.lexeme = SubSeq(input, current + 1, NumberEnd(current))
                 /\ current' = NumberEnd(current)]_vars
    /\ [][Dispatching(46) =>
             LET tok == tokens'[Len(tokens')]
             IN  /\ tokens' = Append(tokens, tok)
                 /\ tok.token_type = "DOT"
                 /\ tok.lexeme = <<46>>
                 /\ current' = current + 1]_vars
    /\ [](pc = "returned" /\ input = <<49, 46>> =>
             /\ TokenTypes(tokens) = <<"NUM", "DOT", "EOF">>
             /\ tokens[1].lexeme = <<49>>)
    /\ [](pc = "returned" /\ input = <<49, 46, 48, 46, 49>> =>
             /\ TokenTypes(tokens) = <<"NUM", "DOT", "NUM", "EOF">>
             /\ tokens[1].lexeme = <<49, 46, 48>>
             /\ tokens[3].lexeme = <<49>>)

C9_Witness ==
    /\ pc = "returned"
    /\ input = <<49, 46, 48, 46, 49>>
    /\ TokenTypes(tokens) = <<"NUM", "DOT", "NUM", "EOF">>

(***************************************************************************)
(* One- and two-character operators.                                       *)
(***************************************************************************)
ShortForm(c) ==
    CASE c = 33 -> "BANG" [] c = 61 -> "EQ" [] c = 60 -> "LT" [] c = 62 -> "GT"

LongForm(c) ==
    CASE c = 33 -> "BANGEQ" [] c = 61 -> "EQEQ" [] c = 60 -> "LTEQ"
      [] c = 62 -> "GTEQ"

IsRuleByte(c) ==
    \/ c \in {40, 41, 123, 125, 44, 46, 45, 43, 59, 42, 47}
    \/ c \in {33, 61, 60, 62, 34}
    \/ c \in {10, 32, 9, 13}
    \/ c \in 48..57 \/ c \in 65..90 \/ c \in 97..122 \/ c = 95

\* C11: a dispatch on a byte of no lexical rule reports exactly one
\* "unexpected character" error with the current line, emits no token,
\* consumes that one byte and leaves the scan running, with the tokens,
\* the cursor and the line exactly as a dispatch on a space leaves them.
C11_UnexpectedChar ==
    /\ [][(pc = "scanning" /\ current < Len(input)
            /\ ~IsRuleByte(input[current + 1])) =>
             /\ errors' = Append(errors, [line |-> line,
                                          message |-> "Unexpected char"])
             /\ tokens' = tokens
             /\ current' = current + 1
             /\ line' = line
             /\ pc' = "scanning"
             /\ ~panicked']_vars
    /\ [][Dispatching(32) =>
             /\ errors' = errors
             /\ tokens' = tokens
             /\ current' = current + 1
             /\ line' = line
             /\ pc' = "scanning"]_vars

C11_Witness ==
    /\ pc = "returned"
    /\ input = <<97, 10, 64, 97>>
    /\ errors = <<[line |-> 2, message |-> "Unexpected char"]>>
    /\ TokenTypes(tokens) = <<"IDENT", "IDENT", "EOF">>

\* C12: a dispatch on a quote that no quote follows reports exactly one
\* error, emits no token and keeps the tokens it found; the scan then
\* returns with the EOF token appended.
C12_UnterminatedString ==
    /\ [][(Dispatching(34) /\ ~HasClosingQuote(current)) =>
             /\ Len(errors') = Len(errors) + 1
             /\ SubSeq(errors', 1, Len(errors)) = errors
             /\ errors'[Len(errors')].message = "Unterminated string."
             /\ tokens' = tokens
             /\ current' = Len(input)
             /\ pc' = "scanning"
             /\ ~panicked']_vars
    /\ [][(pc = "scanning" /\ current = Len(input)) =>
             /\ pc' = "returned"
             /\ errors' = errors
             /\ Len(tokens') = Len(tokens) + 1
             /\ SubSeq(tokens', 1, Len(tokens)) = tokens
             /\ tokens'[Len(tokens')].token_type = "EOF"]_vars

C12_Witness ==
    /\ pc = "returned"
    /\ input = <<97, 32, 34, 97>>
    /\ Len(errors) = 1
    /\ errors[1].message = "Unterminated string."
    /\ TokenTypes(tokens) = <<"IDENT", "EOF">>

\* C13: the line of an unterminated-string report is the line of the
\* opening quote, and the line of an unexpected-character report is the
\* line of that character: in both cases the line of the byte the dispatch
\* started on.
C13_ErrorLine ==
    [][(pc = "scanning" /\ Len(errors') = Len(errors) + 1) =>
          errors'[Len(errors')].line = 1 + NewlinesBefore(current)]_vars

\* C16 as stated: the lines of the reports of one scan strictly increase.
C16_ErrorLinesIncrease ==
    \A i \in 1..(Len(errors) - 1) : errors[i].line < errors[i + 1].line

\* C16, amended: the lines of the reports of one scan never decrease (two
\* reports may carry the same line).
C16_ErrorLinesNeverDecrease ==
    \A i \in 1..(Len(errors) - 1) : errors[i].line <= errors[i + 1].line

C16_Witness ==
    /\ pc = "returned"
    /\ Len(errors) = 3
    /\ errors[1].line = errors[2].line
    /\ errors[2].line < errors[3].line

(***************************************************************************)
(* Punctuation.                                                            *)
(***************************************************************************)
\* The single-character punctuation and the type of each.
PunctType ==
    { <<40, "LPAREN">>, <<41, "RPAREN">>, <<123, "LBRACE">>,
      <<125, "RBRACE">>, <<44, "COMMA">>, <<46, "DOT">>, <<45, "MINUS">>,
      <<43, "PLUS">>, <<59, "SEMICOLON">>, <<47, "SLASH">>, <<42, "STAR">> }

IsPunct(c) == \E p \in PunctType : p[1] = c

IsSpace(c) == c \in {32, 9, 13, 10}

\* The input has only punctuation and white space, and no two slashes are
\* adjacent (punctuation separated by white space never has them).
OnlyPunctuation ==
    /\ \A i \in 1..Len(input) : IsPunct(input[i]) \/ IsSpace(input[i])
    /\ \A i \in 1..(Len(input) - 1) : ~(input[i] = 47 /\ input[i + 1] = 47)

\* C14: for an input of punctuation and white space only, the returned
\* tokens without the EOF are one per punctuation character, in the order
\* of the input, each of the type of its character, with that one
\* character as lexeme and the empty literal; no error is reported.
C14_PunctuationOnly ==
    (pc = "returned" /\ OnlyPunctuation) =>
        LET ps == SelectSeq(input, IsPunct)
        IN  /\ Len(tokens) = Len(ps) + 1
            /\ \A i \in 1..Len(ps) :
                   /\ <<ps[i], tokens[i].token_type>> \in PunctType
                   /\ tokens[i].lexeme = <<ps[i]>>
                   /\ tokens[i].literal = [kind |-> "String", val |-> <<>>]
            /\ tokens[Len(tokens)].token_type = "EOF"
            /\ errors = <<>>
            /\ ~panicked

C14_Witness ==
    /\ pc = "returned"
    /\ input = <<47, 10, 59>>
    /\ TokenTypes(tokens) = <<"SLASH", "SEMICOLON", "EOF">>
    /\ tokens[2].lexeme = <<59>>
    /\ errors = <<>>

(***************************************************************************)
(* Frame and cursor.                                                       *)
(***************************************************************************)
\* C15: every step of a scan keeps the tokens it had as a prefix and
\* appends at most one; a step that reports an error leaves the tokens
\* exactly as they were and leaves the scan loop running.
C15_AppendOnly ==
    [][pc = "scanning" =>
          /\ \/ tokens' = tokens
             \/ /\ Len(tokens') = Len(tokens) + 1
                /\ SubSeq(tokens', 1, Len(tokens)) = tokens
          /\ errors' # errors =>
                /\ tokens' = tokens
                /\ pc' = "scanning"
                /\ ~panicked']_vars

C15_Witness ==
    /\ pc = "returned"
    /\ input = <<97, 0, 97>>
    /\ Len(errors) = 1
    /\ TokenTypes(tokens) = <<"IDENT", "IDENT", "EOF">>

\* C17: always 0 <= start <= current <= length of the input and no
\* indexing or slicing has panicked (advance was never called at the end);
\* every dispatch sets start to the previous current and leaves current
\* strictly greater, so the cursor never moves backwards.
C17_Cursor ==
    /\ [](0 <= start /\ start <= current /\ current <= Len(input)
             /\ ~panicked)
    /\ [][(pc = "scanning" /\ current < Len(input)) =>
             /\ start' = current
             /\ current' > start'
             /\ pc' = "scanning"]_vars
    /\ [][pc = "scanning" => current' >= current /\ start' >= start]_vars

C17_Witness ==
    /\ pc = "scanning"
    /\ input = <<97, 34, 97, 34>>
    /\ start = 1
    /\ current = 4
    /\ Len(tokens) = 2

\* C18: the token a dispatch emits has as lexeme exactly
\* input[start..current] of that dispatch, a non-empty span that begins
\* where the previous dispatch ended (so the spans of successive tokens
\* are disjoint and increase), and the lines of the tokens never decrease
\* along the sequence.
C18_LexemeSpans ==
    /\ [][(pc = "scanning" /\ current < Len(input) /\ tokens' # tokens) =>
             /\ tokens' = Append(tokens, tokens'[Len(tokens')])
             /\ start' = current
             /\ current' > start'
             /\ current' <= Len(input)
             /\ tokens'[Len(tokens')].lexeme =
                    SubSeq(input, start' + 1, current')
             /\ tokens'[Len(tokens')].token_type # "EOF"]_vars
    /\ [](\A i \in 1..(Len(tokens) - 1) :
              tokens[i].line <= tokens[i + 1].line)

C18_Witness ==
    /\ pc = "returned"
    /\ input = <<33, 10, 97, 47>>
    /\ TokenTypes(tokens) = <<"BANG", "IDENT", "SLASH", "EOF">>
    /\ tokens[2].lexeme = <<97>>
    /\ tokens[2].line = 2
    /\ tokens[3].lexeme = <<47>>

(***************************************************************************)
(* The process.                                                            *)
(***************************************************************************)
\* C19: for an argument vector that begins with the program name, main
\* starts the prompt when no script follows, runs the script file when
\* exactly one script follows, and prints the usage exactly when more
\* than one follows.
C19_MainDispatch ==
    [][(pc = "main" /\ Len(args) >= 1) =>
          /\ Len(args) = 1 => (mode' = "prompt" /\ pc' = "prompt")
          /\ Len(args) = 2 =>
                (mode' = "file" /\ pc' = "run_file" /\ file_name' = args[2])
          /\ Len(args) > 2 <=> mode' = "usage"]_vars

\* C20: in run_prompt the flag once true stays true; the loop top that
\* finds it true exits with status 65 and reads no further line, so the
\* assignment HAD_ERROR = false only runs with the flag already false;
\* and while no error is reported the loop keeps prompting and scanning.
C20_HadErrorSticky ==
    /\ [][(mode = "prompt" /\ had_error) => had_error']_vars
    /\ [][(pc = "prompt" /\ had_error) =>
             (pc' = "exited" /\ exit_code' = 65 /\ input' = input)]_vars
    /\ [][(pc = "prompt" /\ pc' = "idle") =>
             (~had_error /\ ~had_error')]_vars
    /\ [](pc = "exited" => [](pc = "exited"))
    /\ (pc = "prompt" /\ ~had_error) ~> (pc = "scanning")
    /\ (mode = "prompt" /\ pc = "scanning") ~> (pc = "prompt")

C20_Witness ==
    /\ mode = "prompt"
    /\ pc = "exited"
    /\ exit_code = 65
    /\ had_error
    /\ errors = <<[line |-> 1, message |-> "Unterminated string."]>>

====
